---- MODULE Spec2Model ----
(***************************************************************************)
(* InSAR batch pipeline orchestrator: code/main_parallel.py with its two   *)
(* acquisition collaborators code/modules/get_dem.py and get_orbit.py.     *)
(*                                                                         *)
(* Spec       one run of main(): credential check, shared-resource         *)
(*            provisioning, the worker pool over the pair list, summary.   *)
(* SpecRetry  run_with_retry on its own, for every retry count.            *)
(* SpecProv   prepare_shared_resources called repeatedly on one disk.      *)
(***************************************************************************)
EXTENDS Integers, Sequences, FiniteSets, TLC

VARIABLES
    API_KEY,        \* TRUE iff OPENTOPO_API_KEY is set (main_parallel.py:155)
    ROI,            \* the module global ROI: a 4-tuple, or Undefined (name never bound)
    WORKERS,        \* pool width (main_parallel.py:177)
    pairsFile,      \* what load_pairs_from_file returns for data/pairs.txt
    fs,             \* the disk: path -> entry
    mainPc,         \* position of the main process
    exitCode,       \* process exit status, NoExit while running
    PAIRS,          \* main's local PAIRS
    target_dem,     \* prepare_shared_resources' local target_dem
    dem_path,       \* main's local dem_path
    acq,            \* what the terrain acquisition call of this run did
    demCalls,       \* calls of download_dem so far
    orbitCalls,     \* calls of download_orbit so far, with their arguments
    warnings,       \* warning lines printed by provisioning
    unit,           \* per task of pool.map: the worker_task activation
    poolValue,      \* MapResult._value: the result list pool.map assembles
    outOfOrder,     \* some task finished before a task earlier in the list
    results,        \* main's local results
    summary,        \* the lines printed by the summary loop
    rr,             \* SpecRetry: the activation of run_with_retry under test
    provRuns,       \* SpecProv: provisioning calls completed so far
    frame           \* SpecLink, SpecDates, SpecLoad: the function call under test

vars == <<API_KEY, ROI, WORKERS, pairsFile, fs, mainPc, exitCode, PAIRS, target_dem,
          dem_path, acq, demCalls, orbitCalls, warnings, unit, poolValue, outOfOrder,
          results, summary, rr, provRuns, frame>>

-----------------------------------------------------------------------------
(* Bounds of the model *)

MaxPairs == 2
MaxRetries == 3
MaxProvRuns == 2

-----------------------------------------------------------------------------
(* Values *)

None == "None"
Undefined == <<>>
NoExit == "NoExit"
NoFrame == <<>>

Min(a, b) == IF a < b THEN a ELSE b

\* Scene identifiers the pair list may name.  A name is a string; Chars gives its
\* characters, which is what split and slicing work on.
SceneA == "S1A_IW_SLC__1SDV_20230203T034221.SAFE"
SceneB == "S1A_IW_SLC__1SDV_20230215T034221.SAFE"
SceneC == "S1B_IW_SLC__1SDV_20230203T034150.SAFE"
SceneD == "scene_20230227.SAFE"

Chars(s) ==
    CASE s = SceneA ->
        <<"S", "1", "A", "_", "I", "W", "_", "S", "L", "C", "_", "_", "1", "S", "D", "V", "_", "2", "0", "2", "3", "0", "2", "0", "3", "T", "0", "3", "4", "2", "2", "1", ".", "S", "A", "F", "E">>
      [] s = SceneB ->
        <<"S", "1", "A", "_", "I", "W", "_", "S", "L", "C", "_", "_", "1", "S", "D", "V", "_", "2", "0", "2", "3", "0", "2", "1", "5", "T", "0", "3", "4", "2", "2", "1", ".", "S", "A", "F", "E">>
      [] s = SceneC ->
        <<"S", "1", "B", "_", "I", "W", "_", "S", "L", "C", "_", "_", "1", "S", "D", "V", "_", "2", "0", "2", "3", "0", "2", "0", "3", "T", "0", "3", "4", "1", "5", "0", ".", "S", "A", "F", "E">>
      [] s = SceneD ->
        <<"s", "c", "e", "n", "e", "_", "2", "0", "2", "3", "0", "2", "2", "7", ".", "S", "A", "F", "E">>

\* ''.join(cs)
RECURSIVE Str(_)
Str(cs) == IF cs = <<>> THEN "" ELSE Head(cs) \o Str(Tail(cs))

\* str.split(sep) on a character sequence: the fields between the separators,
\* empty fields kept.
RECURSIVE SplitFrom(_, _, _)
SplitFrom(cs, sep, cur) ==
    IF cs = <<>> THEN <<cur>>
    ELSE IF Head(cs) = sep THEN <<cur>> \o SplitFrom(Tail(cs), sep, <<>>)
    ELSE SplitFrom(Tail(cs), sep, Append(cur, Head(cs)))

split(cs, sep) == SplitFrom(cs, sep, <<>>)

\* cs[:n]
Prefix(cs, n) == SubSeq(cs, 1, Min(n, Len(cs)))

-----------------------------------------------------------------------------
(* run_with_retry, main_parallel.py:34-44 *)

\* An activation of run_with_retry(cmd, retries=, delay=) at the top of its for
\* loop: attempt is the loop variable, invoked counts the calls of
\* subprocess.run, outcomes lists how they ended, sleeps lists the time.sleep
\* calls.  range(1, retries + 1) is empty when retries < 1: the loop body never
\* runs and the function falls off its end, returning None.
RetryCall(cmd, retries, delay) ==
    [cmd |-> cmd, retries |-> retries, delay |-> delay,
     attempt |-> 1, invoked |-> 0, outcomes |-> <<>>, sleeps |-> <<>>,
     status |-> IF 1 <= retries THEN "running" ELSE "returned",
     value |-> IF 1 <= retries THEN "pending" ELSE None]

\* RetryStep with the test of line 40 off by one: the last retry is never made.
RetryStep_GivesUpEarly(fr, outcome) ==
    LET ran == [fr EXCEPT !.invoked = @ + 1, !.outcomes = Append(@, outcome)] IN
    IF outcome = "ok"
    THEN [ran EXCEPT !.status = "returned", !.value = "True"]
    ELSE IF fr.attempt + 1 < fr.retries
         THEN [ran EXCEPT !.attempt = @ + 1, !.sleeps = Append(@, fr.delay)]
         ELSE [ran EXCEPT !.status = "raised", !.value = "CalledProcessError"]

\* One pass of the loop body: subprocess.run(cmd, check=True) ends with `outcome`,
\* "ok" (exit status 0) or "CalledProcessError" (non-zero exit status).
RetryStep(fr, outcome) ==
    LET ran == [fr EXCEPT !.invoked = @ + 1, !.outcomes = Append(@, outcome)] IN
    IF outcome = "ok"
    THEN [ran EXCEPT !.status = "returned", !.value = "True"]
    ELSE IF fr.attempt < fr.retries
         THEN [ran EXCEPT !.attempt = @ + 1, !.sleeps = Append(@, fr.delay)]
         ELSE [ran EXCEPT !.status = "raised", !.value = "CalledProcessError"]

Outcomes == {"ok", "CalledProcessError"}

-----------------------------------------------------------------------------
(* The disk *)

RAW_DIR == <<"data", "raw">>
DEM_DIR == <<"data", "dem">>
ORBIT_DIR == <<"data", "orbit_data">>
RUNS_DIR == <<"data", "runs">>

\* A path: directory, file name, and the suffix appended to the name (the code
\* builds dem_path + ".xml" and globs on "*.EOF").
Path(dir, name, ext) == [dir |-> dir, name |-> name, ext |-> ext]
NoPath == Path(<<>>, "", "")
WithExt(p, e) == [p EXCEPT !.ext = @ \o e]

\* os.path.join(d, os.path.basename(p))
InDir(d, p) == Path(d, p.name, p.ext)
\* os.path.dirname(p), as a path
Parent(p) == Path(SubSeq(p.dir, 1, Len(p.dir) - 1), p.dir[Len(p.dir)], "")

File == [kind |-> "file", target |-> NoPath]
Dir == [kind |-> "dir", target |-> NoPath]
Link(src) == [kind |-> "link", target |-> src]

\* os.path.lexists
lexists(f, p) == p \in DOMAIN f
\* os.path.exists: follows symbolic links
RECURSIVE exists(_, _)
exists(f, p) ==
    /\ p \in DOMAIN f
    /\ IF f[p].kind = "link" THEN exists(f, f[p].target) ELSE TRUE
\* os.path.islink
islink(f, p) == p \in DOMAIN f /\ f[p].kind = "link"
isdir(f, p) == exists(f, p) /\ f[p].kind = "dir"

remove(f, p) == [q \in DOMAIN f \ {p} |-> f[q]]
put(f, p, e) == [q \in DOMAIN f \cup {p} |-> IF q = p THEN e ELSE f[q]]

\* glob.glob(os.path.join(d, "*" + e)): matching is case-sensitive
glob(f, d, e) == {p \in DOMAIN f : p.dir = d /\ p.ext = e}

-----------------------------------------------------------------------------
(* atomic_link, main_parallel.py:84-111 *)

\* atomic_link with the steps of lines 91-97 swapped: dst is cleared before src
\* is looked at.
atomic_link_ClearsFirst(f, src, dst) ==
    IF lexists(f, dst) /\ f[dst].kind = "dir" THEN [fs |-> f, ret |-> "raise"]
    ELSE LET f1 == IF lexists(f, dst) THEN remove(f, dst) ELSE f IN
         IF ~exists(f1, src) THEN [fs |-> f1, ret |-> "False"]
         ELSE IF isdir(f1, Parent(dst))
         THEN LET f2 == put(f1, dst, Link(src)) IN
              [fs |-> f2, ret |-> IF islink(f2, dst) THEN "True" ELSE "False"]
         ELSE [fs |-> f1, ret |-> "False"]

\* atomic_link without lines 96-97: what occupies dst is left there, and
\* os.symlink fails on it inside the try block.
atomic_link_KeepsOld(f, src, dst) ==
    IF ~exists(f, src) THEN [fs |-> f, ret |-> "False"]
    ELSE IF lexists(f, dst) \/ ~isdir(f, Parent(dst)) THEN [fs |-> f, ret |-> "False"]
    ELSE [fs |-> put(f, dst, Link(src)), ret |-> "True"]

\* atomic_link moving src to dst instead of linking to it
atomic_link_Moves(f, src, dst) ==
    IF ~exists(f, src) THEN [fs |-> f, ret |-> "False"]
    ELSE IF lexists(f, dst) /\ f[dst].kind = "dir" THEN [fs |-> f, ret |-> "raise"]
    ELSE LET f1 == IF lexists(f, dst) THEN remove(f, dst) ELSE f IN
         IF isdir(f1, Parent(dst))
         THEN [fs |-> put(remove(f1, src), dst, f[src]), ret |-> "True"]
         ELSE [fs |-> f1, ret |-> "False"]

\* Returns the disk afterwards and ret: "True", "False", or "raise" when an
\* exception leaves the function.  os.remove (line 97) is outside the try block
\* and raises on a directory; os.symlink (line 102) is inside it.
atomic_link(f, src, dst) ==
    IF ~exists(f, src) THEN [fs |-> f, ret |-> "False"]
    ELSE IF lexists(f, dst) /\ f[dst].kind = "dir" THEN [fs |-> f, ret |-> "raise"]
    ELSE LET f1 == IF lexists(f, dst) THEN remove(f, dst) ELSE f IN
         IF isdir(f1, Parent(dst))
         THEN LET f2 == put(f1, dst, Link(src)) IN
              [fs |-> f2, ret |-> IF islink(f2, dst) THEN "True" ELSE "False"]
         ELSE [fs |-> f1, ret |-> "False"]

-----------------------------------------------------------------------------
(* PairResolver helpers *)

\* Code-point order of the characters that occur in scene identifiers.
Alphabet ==
    <<".", "0", "1", "2", "3", "4", "5", "6", "7", "8", "9",
      "A", "B", "C", "D", "E", "F", "I", "L", "S", "T", "V", "W", "_",
      "c", "e", "n", "s">>
Ord(c) == CHOOSE i \in 1..Len(Alphabet) : Alphabet[i] = c

\* Python's str <= on character sequences
RECURSIVE LexLeq(_, _)
LexLeq(a, b) ==
    IF a = <<>> THEN TRUE
    ELSE IF b = <<>> THEN FALSE
    ELSE IF Head(a) = Head(b) THEN LexLeq(Tail(a), Tail(b))
    ELSE Ord(Head(a)) < Ord(Head(b))

\* The dates collected by the loop of get_date_range_from_pairs (lines 59-70):
\* d1 and d2 are both computed before either is appended, so an IndexError on
\* either identifier drops the whole pair.
RECURSIVE CollectDates(_)
CollectDates(pairs) ==
    IF pairs = <<>> THEN <<>>
    ELSE LET r == split(Chars(Head(pairs)[1]), "_")
             s == split(Chars(Head(pairs)[2]), "_")
         IN (IF Len(r) >= 6 /\ Len(s) >= 6
             THEN <<Prefix(r[6], 8), Prefix(s[6], 8)>>
             ELSE <<>>) \o CollectDates(Tail(pairs))

\* main_parallel.py:54-81: (dates[0], dates[-1]) after dates.sort(), or (None, None)
get_date_range_from_pairs(pairs) ==
    LET dates == CollectDates(pairs)
        idx == 1..Len(dates)
    IN IF dates = <<>> THEN <<None, None>>
       ELSE <<Str(dates[CHOOSE i \in idx : \A j \in idx : LexLeq(dates[i], dates[j])]),
              Str(dates[CHOOSE i \in idx : \A j \in idx : LexLeq(dates[j], dates[i])])>>

\* worker_task lines 299-305: the name of the run directory
folder_name(ref_name, sec_name) ==
    LET r == split(Chars(ref_name), "_")
        s == split(Chars(sec_name), "_")
    IN IF Len(r) >= 6 /\ Len(s) >= 6
       THEN "run_" \o Str(Prefix(r[6], 8)) \o "_" \o Str(Prefix(s[6], 8))
       ELSE "run_" \o Str(Prefix(Chars(ref_name), 10)) \o "_"
                   \o Str(Prefix(Chars(sec_name), 10))

\* line 308: os.path.join(RUNS_DIR, folder_name)
run_dir(folder) == Append(RUNS_DIR, folder)

-----------------------------------------------------------------------------
(* The acquisition collaborators *)

\* get_dem.py:120-121: the name download_dem gives the terrain artifact; the
\* bounding box is (south, north, west, east).
DemLatPath(roi) ==
    Path(DEM_DIR,
         "demLat_N" \o ToString(roi[2]) \o "_S" \o ToString(roi[1])
             \o "_W" \o ToString(roi[3]) \o "_E" \o ToString(roi[4]) \o ".wgs84",
         "")

\* download_dem, get_dem.py:112-204: every way the call can end, as the disk
\* afterwards with the returned path, or with raised = TRUE.  The downloaded
\* temp_download.tif and the .hdr file live only inside the call and are not
\* kept on the modelled disk.
download_dem(f, roi, api_key) ==
    LET dem == DemLatPath(roi)
        xml == WithExt(dem, ".xml")
        vrt == WithExt(dem, ".vrt")
        raise(g) == [fs |-> g, raised |-> TRUE, path |-> NoPath]
        return(g) == [fs |-> g, raised |-> FALSE, path |-> dem]
    IN IF exists(f, dem) /\ exists(f, xml)
       THEN \* lines 133-137: gdal_translate is run unchecked when the .vrt is missing
            IF exists(f, vrt) THEN {return(f)}
            ELSE {return(put(f, vrt, File)), return(f)}
       ELSE IF ~api_key
       THEN {raise(f)}                                        \* line 143
       ELSE { raise(f),                                       \* line 180: no attempt succeeded
              raise(remove(f, dem)),                          \* lines 187/190 fail, 196
              raise(put(remove(f, dem), vrt, File)),          \* line 193 fails, 196
              return(put(put(put(f, dem, File), vrt, File), xml, File)) }

\* The file dloadOrbits leaves for one date
OrbitFile(date) == Path(ORBIT_DIR, "S1A_OPER_AUX_POEORB_V" \o date, ".EOF")

\* download_orbit, get_orbit.py:7-89: never raises; skips when two *.EOF files
\* are there, and otherwise may or may not leave the files of the date range.
download_orbit(f, start_date, end_date) ==
    IF Cardinality(glob(f, ORBIT_DIR, ".EOF")) >= 2
    THEN {f}
    ELSE {f, put(put(f, OrbitFile(start_date), File), OrbitFile(end_date), File)}

-----------------------------------------------------------------------------
(* SandboxBuilder: the staging part of worker_task, main_parallel.py:297-342 *)

\* Lines 315-317: atomic_link of every source in srcs into directory d, in any
\* order; an exception out of atomic_link ends the loop.
RECURSIVE LinkAll(_, _, _)
LinkAll(f, srcs, d) ==
    IF srcs = {} THEN [fs |-> f, ret |-> "True"]
    ELSE LET src == CHOOSE x \in srcs : TRUE
             r == atomic_link(f, src, InDir(d, src))
         IN IF r.ret = "raise" THEN r ELSE LinkAll(r.fs, srcs \ {src}, d)

\* Lines 320-329: the terrain artifact and its sidecars; the loop is inside a try
\* whose handler only prints, so an exception ends the loop and is dropped.
RECURSIVE LinkDem(_, _, _, _)
LinkDem(f, dem, exts, d) ==
    IF exts = <<>> THEN f
    ELSE LET src == WithExt(dem, Head(exts)) IN
         IF exists(f, src)
         THEN LET r == atomic_link(f, src, InDir(d, src)) IN
              IF r.ret = "raise" THEN r.fs ELSE LinkDem(r.fs, dem, Tail(exts), d)
         ELSE LinkDem(f, dem, Tail(exts), d)

\* generate_xml, lines 268-294: open(run_dir/topsApp.xml, "w")
ConfigFile(d) == Path(d, "topsApp.xml", "")
generate_xml(f, d, oserr) ==
    IF oserr = "open" \/ ~isdir(f, Parent(ConfigFile(d)))
       \/ (lexists(f, ConfigFile(d)) /\ f[ConfigFile(d)].kind = "dir")
    THEN [fs |-> f, ret |-> "raise"]
    ELSE [fs |-> put(f, ConfigFile(d), File), ret |-> "None"]

\* cleanup_pickles, lines 47-51
PickleDir(d) == Path(d, "pickle", "")
cleanup_pickles(f, d) == IF exists(f, PickleDir(d)) THEN remove(f, PickleDir(d)) ELSE f

\* Lines 307-342 as one step on the disk, d being the run directory.  oserr names the operating-system call
\* that fails in this activation ("makedirs", "open") or is "none".  raised is
\* TRUE when an exception leaves worker_task: none of these lines is inside the
\* try block of lines 352-387.
Stage(f, d, ref_name, sec_name, dem, oserr) ==
    LET dirPath == Parent(Path(d, "", ""))
        raise(g) == [fs |-> g, raised |-> TRUE]
    IN  IF ~exists(f, dirPath) /\ (oserr = "makedirs" \/ lexists(f, dirPath))
        THEN raise(f)                                                   \* line 309
        ELSE
        LET f1 == IF exists(f, dirPath) THEN f ELSE put(f, dirPath, Dir)
            r2 == LinkAll(f1, glob(f1, ORBIT_DIR, ".EOF"), d)            \* 315-317
        IN  IF r2.ret = "raise" THEN raise(r2.fs) ELSE
        LET f3 == LinkDem(r2.fs, dem, <<"", ".xml", ".vrt">>, d)         \* 320-329
            r4 == atomic_link(f3, Path(RAW_DIR, ref_name, ""), Path(d, ref_name, ""))
        IN  IF r4.ret = "raise" THEN raise(r4.fs) ELSE
        LET r5 == atomic_link(r4.fs, Path(RAW_DIR, sec_name, ""), Path(d, sec_name, ""))
        IN  IF r5.ret = "raise" THEN raise(r5.fs) ELSE
        LET r6 == generate_xml(r5.fs, d, oserr)                          \* 338
        IN  IF r6.ret = "raise" THEN raise(r6.fs)
            ELSE [fs |-> cleanup_pickles(r6.fs, d), raised |-> FALSE]    \* 341-342

-----------------------------------------------------------------------------
(* Configuration area, main_parallel.py:155-178 *)

DEM_BASE_NAME == "dem_standard"
START_STEP == "startup"
PHASE_1 ==
    <<"startup", "preprocess", "computeBaselines", "verifyDEM", "topo",
      "subsetoverlaps", "coarseoffsets", "coarseresamp", "overlapifg",
      "prepesd", "esd", "rangecoreg", "fineoffsets">>
PHASE_2_START == "fineresamp"
PHASE_2_END == "geocode"

\* topsApp.py topsApp.xml --steps --start=<start> --end=<end>
Cmd(start, end) == [start |-> start, end |-> end]
NoCmd == Cmd("", "")
Commands == {Cmd(PHASE_1[k], PHASE_1[k]) : k \in 1..Len(PHASE_1)}
                \cup {Cmd(PHASE_2_START, PHASE_2_END)}

\* Lines 354-357: PHASE_1[PHASE_1.index(START_STEP):]
current_steps ==
    IF \E k \in 1..Len(PHASE_1) : PHASE_1[k] = START_STEP
    THEN SubSeq(PHASE_1, CHOOSE k \in 1..Len(PHASE_1) : PHASE_1[k] = START_STEP,
                Len(PHASE_1))
    ELSE <<>>

-----------------------------------------------------------------------------
(* Inputs of a run *)

WorkerChoices == {1, 2}
RoiChoices == {Undefined, <<1, 2, 3, 4>>}
\* The second pair has the dates of the first; the third takes the fallback name
PairList == <<<<SceneA, SceneB>>, <<SceneC, SceneB>>, <<SceneB, SceneD>>,
              <<SceneD, SceneA>>>>
PairFiles == {SubSeq(PairList, 1, n) : n \in 0..Min(MaxPairs, Len(PairList))}

TargetDem == Path(DEM_DIR, DEM_BASE_NAME \o ".wgs84", "")
Sidecars(dem) == {dem, WithExt(dem, ".xml"), WithExt(dem, ".vrt")}
\* The test of line 191
DemReady(f) == \A p \in Sidecars(TargetDem) : exists(f, p)

\* data/raw holds three of the four scenes
RawFiles == {Path(RAW_DIR, SceneA, ""), Path(RAW_DIR, SceneB, ""), Path(RAW_DIR, SceneD, "")}
\* data/dem: empty; the expected artifact complete; or an artifact under the name
\* download_dem uses, with its .xml but without its .vrt
DemChoices ==
    {{}, Sidecars(TargetDem),
     {DemLatPath(<<1, 2, 3, 4>>), WithExt(DemLatPath(<<1, 2, 3, 4>>), ".xml")}}
\* data/orbit_data: one *.EOF and one *.eof
OrbitChoices ==
    {{Path(ORBIT_DIR, "orbit_1", ".EOF"), Path(ORBIT_DIR, "orbit_2", ".eof")}}

Disk(dems, orbits) ==
    [p \in RawFiles \cup dems \cup orbits |-> IF p \in RawFiles THEN Dir ELSE File]
Disks == {Disk(d, o) : d \in DemChoices, o \in OrbitChoices}
\* The disk on which the longest pair lists are run: the expected terrain
\* artifact is complete.  The other disks are run on lists one pair shorter.
ReadyDisks == {Disk(Sidecars(TargetDem), o) : o \in OrbitChoices}

-----------------------------------------------------------------------------
(* State of one unit of work *)

NoCall == [RetryCall(NoCmd, 0, 0) EXCEPT !.status = "none"]
NoResult == [folder |-> "", status |-> None, cmd |-> NoCmd]

\* The return values of worker_task, lines 384 and 387
Success(folder) == [folder |-> folder, status |-> "Success", cmd |-> NoCmd]
Failure(folder, cmd) == [folder |-> folder, status |-> "fail", cmd |-> cmd]

\* starts counts the times worker_task was entered for the task; invokedCmds
\* and okCmds are the commands the unit has invoked and those that succeeded
PendingUnit ==
    [pc |-> "Pending", folder |-> "", step |-> 0, call |-> NoCall, invokedCmds |-> {},
     okCmds |-> {},
     starts |-> 0]

Tasks == 1..Len(PAIRS)
Terminal == {"Succeeded", "Failed", "Raised"}
Running == {"Staging", "Phase1Running", "Phase2Running"}
InProgress == {i \in DOMAIN unit : unit[i].pc \in Running}

\* PoolSet as an unordered collection would do it: the result goes to the first
\* free slot, in order of completion.
PoolSet_CompletionOrder(value, i, result) ==
    [value EXCEPT ![CHOOSE k \in DOMAIN value :
                        /\ value[k] = NoResult
                        /\ \A j \in 1..(k - 1) : value[j] # NoResult] = result]

\* MapResult._set: the result of task i goes to slot i of the result list
PoolSet(value, i, result) == [value EXCEPT ![i] = result]

envVars == <<API_KEY, ROI, WORKERS, pairsFile>>
provVars == <<target_dem, acq, demCalls, orbitCalls, warnings>>
poolVars == <<unit, poolValue, outOfOrder>>

-----------------------------------------------------------------------------
(* main, main_parallel.py:389-430 *)

Init ==
    /\ API_KEY \in BOOLEAN
    /\ ROI \in RoiChoices
    /\ WORKERS \in WorkerChoices
    /\ pairsFile \in PairFiles
    /\ fs \in Disks
    /\ Len(pairsFile) = MaxPairs => fs \in ReadyDisks
    /\ mainPc = "start"
    /\ exitCode = NoExit
    /\ PAIRS = <<>>
    /\ target_dem = NoPath
    /\ dem_path = NoPath
    /\ acq = "none"
    /\ demCalls = 0
    /\ orbitCalls = <<>>
    /\ warnings = {}
    /\ unit = <<>>
    /\ poolValue = <<>>
    /\ outOfOrder = FALSE
    /\ results = <<>>
    /\ summary = <<>>
    /\ rr = NoCall
    /\ provRuns = <<>>
    /\ frame = NoFrame

\* Lines 392-406: the credential check, then the pair list is loaded and printed
MainCheckEnv ==
    /\ mainPc = "start"
    /\ IF ~API_KEY
       THEN /\ mainPc' = "exit_credential"
            /\ exitCode' = 1
            /\ PAIRS' = PAIRS
       ELSE /\ mainPc' = "prepare_dem"
            /\ exitCode' = exitCode
            /\ PAIRS' = pairsFile
    /\ UNCHANGED <<envVars, provVars, poolVars, fs, dem_path, results, summary, rr, provRuns, frame>>

\* prepare_shared_resources, lines 186-198 and 215-219.  Reading ROI on line 198
\* raises NameError when the configuration area never bound it; main's handler
\* (lines 412-414) turns any exception of the call into sys.exit(1).
PrepareDem ==
    /\ mainPc = "prepare_dem"
    /\ IF DemReady(fs)
       THEN /\ mainPc' = "pool_start"                                    \* line 193
            /\ dem_path' = TargetDem
            /\ UNCHANGED <<exitCode, target_dem, warnings>>
       ELSE IF ROI = Undefined
       THEN /\ mainPc' = "exit_provision"                                \* line 198
            /\ exitCode' = 1
            /\ UNCHANGED <<dem_path, target_dem, warnings>>
       ELSE IF API_KEY
       THEN /\ mainPc' = "download_dem"
            /\ target_dem' = TargetDem
            /\ UNCHANGED <<exitCode, dem_path, warnings>>
       ELSE /\ mainPc' = "prepare_orbit"                                 \* lines 218-219
            /\ target_dem' = TargetDem
            /\ warnings' = warnings \cup {"OPENTOPO_API_KEY is not set"}
            /\ UNCHANGED <<exitCode, dem_path>>
    /\ UNCHANGED <<envVars, poolVars, fs, PAIRS, acq, demCalls, orbitCalls, results,
                   summary, rr, provRuns, frame>>

\* Lines 199-214: the acquisition call and the check of its metadata files, both
\* inside the try whose handler (line 213) prints and goes on.
PrepareDownloadDem ==
    /\ mainPc = "download_dem"
    /\ \E o \in download_dem(fs, ROI, API_KEY) :
          /\ fs' = o.fs
          /\ demCalls' = demCalls + 1
          /\ IF o.raised
             THEN /\ acq' = "raised"
                  /\ target_dem' = target_dem
                  /\ warnings' = warnings \cup {"DEM download failed"}
             ELSE /\ target_dem' = o.path
                  /\ IF ~exists(o.fs, WithExt(o.path, ".xml"))
                        \/ ~exists(o.fs, WithExt(o.path, ".vrt"))
                     THEN /\ acq' = "missing_meta"                       \* line 212
                          /\ warnings' = warnings \cup {"DEM download failed"}
                     ELSE /\ acq' = "ok"
                          /\ warnings' = warnings
    /\ mainPc' = "prepare_orbit"
    /\ UNCHANGED <<envVars, poolVars, exitCode, PAIRS, dem_path, orbitCalls, results,
                   summary, rr, provRuns, frame>>

\* Lines 224-249: ephemeris provisioning, then return os.path.abspath(target_dem)
PrepareOrbit ==
    /\ mainPc = "prepare_orbit"
    /\ LET range == get_date_range_from_pairs(pairsFile)
           few(g) == Cardinality(glob(g, ORBIT_DIR, ".EOF")
                                 \cup glob(g, ORBIT_DIR, ".eof")) < 2
           warn(g, skipped) ==
                warnings \cup (IF skipped THEN {"skip track auto-download"} ELSE {})
                         \cup (IF few(g) THEN {"number of track files < 2"} ELSE {})
       IN IF range[1] = None \/ range[1] = ""
          THEN /\ fs' = fs
               /\ orbitCalls' = orbitCalls
               /\ warnings' = warn(fs, TRUE)
          ELSE \E g \in download_orbit(fs, range[1], range[2]) :
               /\ fs' = g
               /\ orbitCalls' = Append(orbitCalls, <<range[1], range[2], ORBIT_DIR>>)
               /\ warnings' = warn(g, FALSE)
    /\ dem_path' = target_dem
    /\ mainPc' = "pool_start"
    /\ UNCHANGED <<envVars, poolVars, exitCode, PAIRS, target_dem, acq, demCalls, results,
                   summary, rr, provRuns, frame>>

\* PoolStart with the pool opened before prepare_shared_resources has returned
PoolStart_Early ==
    /\ mainPc \in {"prepare_orbit", "pool_start"}
    /\ mainPc' = "pool"
    /\ unit' = [i \in Tasks |-> PendingUnit]
    /\ poolValue' = [i \in Tasks |-> NoResult]
    /\ UNCHANGED <<envVars, provVars, outOfOrder, fs, exitCode, PAIRS, dem_path, results,
                   summary, rr, provRuns, frame>>

\* Lines 416-424: task_args is built and pool.map hands the tasks to the pool.
\* With at most 4 * WORKERS tasks pool.map's chunk size is 1: every task is
\* handed out on its own.
PoolStart ==
    /\ mainPc = "pool_start"
    /\ mainPc' = "pool"
    /\ unit' = [i \in Tasks |-> PendingUnit]
    /\ poolValue' = [i \in Tasks |-> NoResult]
    /\ UNCHANGED <<envVars, provVars, outOfOrder, fs, exitCode, PAIRS, dem_path, results,
                   summary, rr, provRuns, frame>>

\* Dispatch by a pool that starts one process per task, whatever WORKERS says
Dispatch_Unbounded(i) ==
    /\ mainPc = "pool"
    /\ unit[i].pc = "Pending"
    /\ unit' = [unit EXCEPT ![i].pc = "Staging",
                            ![i].starts = @ + 1,
                            ![i].folder = folder_name(PAIRS[i][1], PAIRS[i][2])]
    /\ UNCHANGED <<envVars, provVars, poolValue, outOfOrder, fs, mainPc, exitCode, PAIRS,
                   dem_path, results, summary, rr, provRuns, frame>>

\* A free worker of Pool(WORKERS) takes the next task of the list and enters
\* worker_task, which names its run directory (lines 297-305)
Dispatch(i) ==
    /\ mainPc = "pool"
    /\ unit[i].pc = "Pending"
    /\ \A j \in 1..(i - 1) : unit[j].pc # "Pending"
    /\ Cardinality(InProgress) < WORKERS
    /\ unit' = [unit EXCEPT ![i].pc = "Staging",
                            ![i].starts = @ + 1,
                            ![i].folder = folder_name(PAIRS[i][1], PAIRS[i][2])]
    /\ UNCHANGED <<envVars, provVars, poolValue, outOfOrder, fs, mainPc, exitCode, PAIRS,
                   dem_path, results, summary, rr, provRuns, frame>>

\* TRUE when task i ends while a task before it in the list has not ended
Overtakes(i) == \E j \in 1..(i - 1) : unit[j].pc \notin Terminal

\* worker_task lines 297-358: the sandbox is staged and Phase 1 begins
StageUnit(i) ==
    /\ mainPc = "pool"
    /\ unit[i].pc = "Staging"
    /\ \E oserr \in {"none", "makedirs", "open"} :
          LET r == Stage(fs, run_dir(unit[i].folder), PAIRS[i][1], PAIRS[i][2],
                         dem_path, oserr) IN
          /\ fs' = r.fs
          /\ IF r.raised
             THEN /\ unit' = [unit EXCEPT ![i].pc = "Raised"]
                  /\ outOfOrder' = (outOfOrder \/ Overtakes(i))
             ELSE /\ unit' = [unit EXCEPT
                          ![i].pc = "Phase1Running",
                          ![i].step = 1,
                          ![i].call = RetryCall(Cmd(current_steps[1], current_steps[1]), 2, 3)]
                  /\ outOfOrder' = outOfOrder
    /\ UNCHANGED <<envVars, provVars, poolValue, mainPc, exitCode, PAIRS, dem_path, results,
                   summary, rr, provRuns, frame>>

\* AfterCall with the exception of a Phase 1 step swallowed: the loop of lines
\* 360-369 goes on to the next step.
AfterCall_IgnoresFailure(u, fr) ==
    IF fr.status = "running" THEN [u EXCEPT !.call = fr]
    ELSE IF fr.status = "raised" /\ u.pc = "Phase2Running"
    THEN [u EXCEPT !.call = fr, !.pc = "Failed"]
    ELSE IF u.pc = "Phase1Running" /\ u.step < Len(current_steps)
    THEN [u EXCEPT !.step = @ + 1,
                   !.call = RetryCall(Cmd(current_steps[u.step + 1],
                                          current_steps[u.step + 1]), 2, 3)]
    ELSE IF u.pc = "Phase1Running"
    THEN [u EXCEPT !.pc = "Phase2Running",
                   !.call = RetryCall(Cmd(PHASE_2_START, PHASE_2_END), 1, 5)]
    ELSE [u EXCEPT !.call = fr, !.pc = "Succeeded"]

\* What worker_task does when the run_with_retry call `fr` of unit u has ended:
\* the next call (lines 360-378), the Success return (384) or the handler (387).
AfterCall(u, fr) ==
    IF fr.status = "running" THEN [u EXCEPT !.call = fr]
    ELSE IF fr.status = "raised" THEN [u EXCEPT !.call = fr, !.pc = "Failed"]
    ELSE IF u.pc = "Phase1Running" /\ u.step < Len(current_steps)
    THEN [u EXCEPT !.step = @ + 1,
                   !.call = RetryCall(Cmd(current_steps[u.step + 1],
                                          current_steps[u.step + 1]), 2, 3)]
    ELSE IF u.pc = "Phase1Running"
    THEN [u EXCEPT !.pc = "Phase2Running",
                   !.call = RetryCall(Cmd(PHASE_2_START, PHASE_2_END), 1, 5)]
    ELSE [u EXCEPT !.call = fr, !.pc = "Succeeded"]

\* ResultOf with the handler of line 387 returning the Success line
ResultOf_AlwaysSuccess(u) ==
    IF u.pc \in {"Succeeded", "Failed"} THEN Success(u.folder) ELSE NoResult

\* The result worker_task returns in state u, NoResult while it runs
ResultOf(u) ==
    IF u.pc = "Succeeded" THEN Success(u.folder)
    ELSE IF u.pc = "Failed" THEN Failure(u.folder, u.call.cmd)
    ELSE NoResult

\* One invocation of the external processor by unit i (line 37 under lines 365,
\* 378), and what worker_task does with its outcome.  The processor keeps its
\* pickle cache in the run directory.
Invoke(i) ==
    /\ mainPc = "pool"
    /\ unit[i].pc \in {"Phase1Running", "Phase2Running"}
    /\ unit[i].call.status = "running"
    /\ \E outcome \in Outcomes :
          LET fr == RetryStep(unit[i].call, outcome)
              u == AfterCall([unit[i] EXCEPT
                                 !.invokedCmds = @ \cup {unit[i].call.cmd},
                                 !.okCmds = IF outcome = "ok"
                                            THEN @ \cup {unit[i].call.cmd} ELSE @], fr)
              pickle == PickleDir(run_dir(unit[i].folder))
          IN /\ unit' = [unit EXCEPT ![i] = u]
             /\ fs' = IF outcome = "ok" /\ ~lexists(fs, pickle)
                      THEN put(fs, pickle, Dir) ELSE fs
             /\ IF u.pc \in Terminal
                THEN /\ poolValue' = PoolSet(poolValue, i, ResultOf(u))
                     /\ outOfOrder' = (outOfOrder \/ Overtakes(i))
                ELSE UNCHANGED <<poolValue, outOfOrder>>
    /\ UNCHANGED <<envVars, provVars, mainPc, exitCode, PAIRS, dem_path, results,
                   summary, rr, provRuns, frame>>

\* Line 424: pool.map returns once every task has ended; an exception that left
\* a worker_task is raised again in main, which has no handler for it.
PoolReturn ==
    /\ mainPc = "pool"
    /\ \A i \in Tasks : unit[i].pc \in Terminal
    /\ IF \E i \in Tasks : unit[i].pc = "Raised"
       THEN /\ mainPc' = "exit_pool"
            /\ exitCode' = 1
            /\ results' = results
       ELSE /\ mainPc' = "summary"
            /\ exitCode' = exitCode
            /\ results' = poolValue
    /\ UNCHANGED <<envVars, provVars, poolVars, fs, PAIRS, dem_path, summary, rr, provRuns, frame>>

\* Lines 426-430: one line per result, then the process ends normally
Summary ==
    /\ mainPc = "summary"
    /\ summary' = results
    /\ mainPc' = "done"
    /\ exitCode' = 0
    /\ UNCHANGED <<envVars, provVars, poolVars, fs, PAIRS, dem_path, results, rr, provRuns, frame>>

Next ==
    \/ MainCheckEnv
    \/ PrepareDem
    \/ PrepareDownloadDem
    \/ PrepareOrbit
    \/ PoolStart
    \/ \E i \in DOMAIN unit : Dispatch(i)
    \/ \E i \in DOMAIN unit : StageUnit(i)
    \/ \E i \in DOMAIN unit : Invoke(i)
    \/ PoolReturn
    \/ Summary

Spec == Init /\ [][Next]_vars

\* The run with its scheduling: main goes on from statement to statement,
\* the pool hands a pending task to a free worker, a worker goes on with its
\* task, and subprocess.run returns.  PrepareOrbit can be taken exactly while
\* mainPc = "prepare_orbit" and StageUnit(i) exactly while unit i is Staging,
\* and each ends that; their weak fairness is written as what it means, that
\* the run does not stay there for ever.
SpecLive ==
    /\ Init /\ [][Next]_vars
    /\ WF_vars(MainCheckEnv \/ PrepareDem \/ PrepareDownloadDem \/ PoolStart
                   \/ PoolReturn \/ Summary)
    /\ WF_vars(\E i \in DOMAIN unit : Dispatch(i))
    /\ WF_vars(\E i \in DOMAIN unit : Invoke(i))
    /\ []<>(mainPc # "prepare_orbit")
    /\ []<>(\A i \in DOMAIN unit : unit[i].pc # "Staging")

-----------------------------------------------------------------------------
(* run_with_retry on its own *)

Delays == {3, 5}

InitRetry ==
    /\ API_KEY = TRUE
    /\ ROI = Undefined
    /\ WORKERS = 2
    /\ pairsFile = <<>>
    /\ fs = Disk({}, {})
    /\ mainPc = "run_with_retry"
    /\ exitCode = NoExit
    /\ PAIRS = <<>>
    /\ target_dem = NoPath
    /\ dem_path = NoPath
    /\ acq = "none"
    /\ demCalls = 0
    /\ orbitCalls = <<>>
    /\ warnings = {}
    /\ unit = <<>>
    /\ poolValue = <<>>
    /\ outOfOrder = FALSE
    /\ results = <<>>
    /\ summary = <<>>
    /\ rr \in {RetryCall(c, n, d) : c \in Commands, n \in 0..MaxRetries, d \in Delays}
    /\ provRuns = <<>>
    /\ frame = NoFrame

\* One pass of the loop of lines 35-44
RetryInvoke ==
    /\ mainPc = "run_with_retry"
    /\ rr.status = "running"
    /\ \E outcome \in Outcomes : rr' = RetryStep(rr, outcome)
    /\ UNCHANGED <<envVars, provVars, poolVars, fs, mainPc, exitCode, PAIRS, dem_path,
                   results, summary, provRuns, frame>>

NextRetry == RetryInvoke

SpecRetry == InitRetry /\ [][NextRetry]_vars

-----------------------------------------------------------------------------
(* The two retry paths side by side: run_with_retry and the download loop of
   download_dem, get_dem.py:153-180 *)

MAX_RETRIES == 5
RETRY_DELAY == 10

\* download_dem at the top of its download loop: attempt is the loop variable,
\* tried counts the requests made, outcomes lists how they ended, waits lists
\* the time.sleep calls, success is the flag of line 153.
DownloadCall ==
    [attempt |-> 1, tried |-> 0, outcomes |-> <<>>, waits |-> <<>>,
     success |-> FALSE, status |-> "running"]

DownloadOutcomes == {"ok", "Exception"}

\* DownloadStep sleeping RETRY_DELAY after every failed attempt
DownloadStep_FixedWait(fr, outcome) ==
    LET ran == [fr EXCEPT !.tried = @ + 1, !.outcomes = Append(@, outcome)] IN
    IF outcome = "ok"
    THEN [ran EXCEPT !.success = TRUE, !.status = "downloaded"]
    ELSE IF fr.attempt < MAX_RETRIES
         THEN [ran EXCEPT !.attempt = @ + 1, !.waits = Append(@, RETRY_DELAY)]
         ELSE [ran EXCEPT !.status = "raised"]

\* One pass of the loop body, get_dem.py:154-177: the request and the size
\* check end with `outcome`; "ok" sets success and breaks; an exception is
\* caught, and is followed by a sleep of attempt * RETRY_DELAY unless it was
\* the last attempt, after which `if not success` raises (lines 179-180).
DownloadStep(fr, outcome) ==
    LET ran == [fr EXCEPT !.tried = @ + 1, !.outcomes = Append(@, outcome)] IN
    IF outcome = "ok"
    THEN [ran EXCEPT !.success = TRUE, !.status = "downloaded"]
    ELSE IF fr.attempt < MAX_RETRIES
         THEN [ran EXCEPT !.attempt = @ + 1,
                          !.waits = Append(@, fr.attempt * RETRY_DELAY)]
         ELSE [ran EXCEPT !.status = "raised"]

InitDelays ==
    /\ API_KEY = TRUE
    /\ ROI = Undefined
    /\ WORKERS = 2
    /\ pairsFile = <<>>
    /\ fs = Disk({}, {})
    /\ mainPc = "run_with_retry"
    /\ exitCode = NoExit
    /\ PAIRS = <<>>
    /\ target_dem = NoPath
    /\ dem_path = NoPath
    /\ acq = "none"
    /\ demCalls = 0
    /\ orbitCalls = <<>>
    /\ warnings = {}
    /\ unit = <<>>
    /\ poolValue = <<>>
    /\ outOfOrder = FALSE
    /\ results = <<>>
    /\ summary = <<>>
    /\ rr \in {RetryCall(c, n, d) : c \in Commands, n \in 0..MaxRetries, d \in Delays}
    /\ provRuns = <<>>
    /\ frame = DownloadCall

\* One pass of the download loop
DownloadAttempt ==
    /\ frame.status = "running"
    /\ \E outcome \in DownloadOutcomes : frame' = DownloadStep(frame, outcome)
    /\ UNCHANGED <<envVars, provVars, poolVars, fs, mainPc, exitCode, PAIRS, dem_path,
                   results, summary, provRuns, rr>>

NextDelays == RetryInvoke \/ DownloadAttempt

SpecDelays == InitDelays /\ [][NextDelays]_vars

-----------------------------------------------------------------------------
(* prepare_shared_resources called again and again on the same disk *)

InitProv ==
    /\ API_KEY \in BOOLEAN
    /\ ROI \in RoiChoices
    /\ WORKERS = 2
    /\ pairsFile \in PairFiles
    /\ fs \in Disks
    /\ mainPc = "prepare_dem"
    /\ exitCode = NoExit
    /\ PAIRS = <<>>
    /\ target_dem = NoPath
    /\ dem_path = NoPath
    /\ acq = "none"
    /\ demCalls = 0
    /\ orbitCalls = <<>>
    /\ warnings = {}
    /\ unit = <<>>
    /\ poolValue = <<>>
    /\ outOfOrder = FALSE
    /\ results = <<>>
    /\ summary = <<>>
    /\ rr = NoCall
    /\ provRuns = <<>>
    /\ frame = NoFrame

\* The call has ended (returned, or raised on line 198); it is recorded and
\* prepare_shared_resources is called afresh.
ProvAgain ==
    /\ mainPc \in {"pool_start", "exit_provision"}
    /\ Len(provRuns) < MaxProvRuns
    /\ provRuns' = Append(provRuns,
                          [raised |-> mainPc = "exit_provision", ret |-> dem_path,
                           acq |-> acq, demCalls |-> demCalls,
                           orbitCalls |-> Len(orbitCalls)])
    /\ mainPc' = "prepare_dem"
    /\ exitCode' = NoExit
    /\ target_dem' = NoPath
    /\ dem_path' = NoPath
    /\ acq' = "none"
    /\ demCalls' = 0
    /\ orbitCalls' = <<>>
    /\ warnings' = {}
    /\ UNCHANGED <<envVars, poolVars, fs, PAIRS, results, summary, rr, frame>>

NextProv ==
    \/ PrepareDem
    \/ PrepareDownloadDem
    \/ PrepareOrbit
    \/ ProvAgain

SpecProv == InitProv /\ [][NextProv]_vars

-----------------------------------------------------------------------------
(* atomic_link called again and again with the same arguments *)

MaxLinkCalls == 2

LinkDir == run_dir("run_20230203_20230215")
LinkSrcs == {Path(RAW_DIR, SceneA, ""), WithExt(TargetDem, ".xml")}
Elsewhere == Path(RAW_DIR, SceneB, "")
Gone == Path(RAW_DIR, "gone", "")

\* What can be at src: nothing, a file, a link to a file, a link to nothing
SrcDisks(src) ==
    { [p \in {Elsewhere} |-> File],
      [p \in {Elsewhere, src} |-> File],
      [p \in {Elsewhere, src} |-> IF p = src THEN Link(Elsewhere) ELSE File],
      [p \in {Elsewhere, src} |-> IF p = src THEN Link(Gone) ELSE File] }
\* What can be at dst: no run directory at all; or, in the run directory,
\* nothing, a file, a link to src, a link to another file, a broken link, a
\* directory
DstDisks(f, src, dst) ==
    {f} \cup
    {put(f, Parent(dst), Dir)} \cup
    {put(put(f, Parent(dst), Dir), dst, e) :
        e \in {File, Link(src), Link(Elsewhere), Link(Gone), Dir}}

InitLink ==
    /\ API_KEY = TRUE
    /\ ROI = Undefined
    /\ WORKERS = 2
    /\ pairsFile = <<>>
    /\ mainPc = "atomic_link"
    /\ exitCode = NoExit
    /\ PAIRS = <<>>
    /\ target_dem = NoPath
    /\ dem_path = NoPath
    /\ acq = "none"
    /\ demCalls = 0
    /\ orbitCalls = <<>>
    /\ warnings = {}
    /\ unit = <<>>
    /\ poolValue = <<>>
    /\ outOfOrder = FALSE
    /\ results = <<>>
    /\ summary = <<>>
    /\ rr = NoCall
    /\ provRuns = <<>>
    /\ \E src \in LinkSrcs :
          /\ fs \in UNION {DstDisks(f, src, InDir(LinkDir, src)) : f \in SrcDisks(src)}
          /\ frame = [src |-> src, dst |-> InDir(LinkDir, src), before |-> fs,
                      rets |-> <<>>, disks |-> <<>>]

\* One call atomic_link(src, dst); its return value and the disk it leaves are
\* recorded.
LinkCall ==
    /\ mainPc = "atomic_link"
    /\ Len(frame.rets) < MaxLinkCalls
    /\ LET r == atomic_link(fs, frame.src, frame.dst) IN
          /\ fs' = r.fs
          /\ frame' = [frame EXCEPT !.rets = Append(@, r.ret),
                                    !.disks = Append(@, r.fs)]
    /\ UNCHANGED <<envVars, provVars, poolVars, mainPc, exitCode, PAIRS, dem_path,
                   results, summary, rr, provRuns>>

NextLink == LinkCall

SpecLink == InitLink /\ [][NextLink]_vars

-----------------------------------------------------------------------------
(* get_date_range_from_pairs on its own *)

MaxDatePairs == 2

\* Two identifiers with a date field and one without
DateScenes == {SceneA, SceneB, SceneD}
DatePairs == {<<r, s>> : r \in DateScenes, s \in DateScenes}
RECURSIVE SeqsUpTo(_, _)
SeqsUpTo(S, n) ==
    IF n = 0 THEN {<<>>}
    ELSE LET shorter == SeqsUpTo(S, n - 1) IN
         shorter \cup {Append(q, x) : q \in {t \in shorter : Len(t) = n - 1}, x \in S}

InitDates ==
    /\ API_KEY = TRUE
    /\ ROI = Undefined
    /\ WORKERS = 2
    /\ pairsFile \in SeqsUpTo(DatePairs, MaxDatePairs)
    /\ fs = Disk({}, {})
    /\ mainPc = "get_date_range_from_pairs"
    /\ exitCode = NoExit
    /\ PAIRS = <<>>
    /\ target_dem = NoPath
    /\ dem_path = NoPath
    /\ acq = "none"
    /\ demCalls = 0
    /\ orbitCalls = <<>>
    /\ warnings = {}
    /\ unit = <<>>
    /\ poolValue = <<>>
    /\ outOfOrder = FALSE
    /\ results = <<>>
    /\ summary = <<>>
    /\ rr = NoCall
    /\ provRuns = <<>>
    /\ frame = [pairs |-> pairsFile, status |-> "called", ret |-> <<>>]

\* The call get_date_range_from_pairs(pairs) of line 228 returns
DatesReturn ==
    /\ mainPc = "get_date_range_from_pairs"
    /\ frame.status = "called"
    /\ frame' = [frame EXCEPT !.status = "returned",
                              !.ret = get_date_range_from_pairs(frame.pairs)]
    /\ UNCHANGED <<envVars, provVars, poolVars, fs, mainPc, exitCode, PAIRS, dem_path,
                   results, summary, rr, provRuns>>

NextDates == DatesReturn

SpecDates == InitDates /\ [][NextDates]_vars

-----------------------------------------------------------------------------
(* load_pairs_from_file, main_parallel.py:114-140 *)

MaxLines == 2

\* A line of pairs.txt is written as the sequence of its lexemes: a word (a
\* scene identifier or any other run of characters without separators) or one
\* of the characters below.
Space == " "
Comma == ","
Quote == "\""
Apostrophe == "'"

\* The words re.findall matches on line 124: S1[AB]_IW_SLC__...\.SAFE
IsCanonical(x) == x \in {SceneA, SceneB, SceneC}

\* str.lstrip(cs), str.rstrip(cs), str.strip(cs)
RECURSIVE lstrip(_, _)
lstrip(l, cs) == IF l # <<>> /\ Head(l) \in cs THEN lstrip(Tail(l), cs) ELSE l
RECURSIVE rstrip(_, _)
rstrip(l, cs) ==
    IF l # <<>> /\ l[Len(l)] \in cs THEN rstrip(SubSeq(l, 1, Len(l) - 1), cs) ELSE l
strip(l, cs) == rstrip(lstrip(l, cs), cs)

\* Line 124: the canonical identifiers found in the line, in order
GrammarA(line) == SelectSeq(line, IsCanonical)

\* Lines 129-135: the tokens the fallback grammar finds in the line.  The
\* replace of line 131 replaces the double quote by itself.
NonBlank(p) == strip(p, {Space}) # <<>>
Unquote(p) == Str(strip(strip(strip(p, {Space}), {Quote}), {Apostrophe}))
GrammarB(line) ==
    LET cleaned == strip(rstrip(lstrip(strip(line, {Space}), {"("}), {")"}), {Space})
        fields == IF \E k \in 1..Len(cleaned) : cleaned[k] = Comma
                  THEN SelectSeq(split(cleaned, Comma), NonBlank)
                  ELSE SelectSeq(split(cleaned, Space), NonBlank)
    IN [k \in 1..Len(fields) |-> Unquote(fields[k])]

\* ParseLine without the continue of line 127: a line with two canonical
\* identifiers goes on into the fallback grammar.
ParseLine_NoContinue(raw) ==
    LET line == strip(raw, {Space})
        found == GrammarA(line)
        parts == GrammarB(line)
    IN IF line = <<>> \/ Head(line) = "#" THEN <<>>
       ELSE (IF Len(found) = 2 THEN <<<<found[1], found[2]>>>> ELSE <<>>)
            \o (IF Len(parts) = 2 THEN <<<<parts[1], parts[2]>>>> ELSE <<>>)

\* The body of the loop of lines 121-139: what one line adds to pairs_list
ParseLine(raw) ==
    LET line == strip(raw, {Space})
        found == GrammarA(line)
        parts == GrammarB(line)
    IN IF line = <<>> \/ Head(line) = "#" THEN <<>>                    \* line 123
       ELSE IF Len(found) = 2 THEN <<<<found[1], found[2]>>>>          \* lines 125-127
       ELSE IF Len(parts) = 2 THEN <<<<parts[1], parts[2]>>>>          \* lines 137-138
       ELSE <<>>

\* file is [there |-> whether the file exists, lines |-> its lines]
RECURSIVE ParseLines(_)
ParseLines(lines) ==
    IF lines = <<>> THEN <<>> ELSE ParseLine(Head(lines)) \o ParseLines(Tail(lines))
load_pairs_from_file(file) == IF ~file.there THEN <<>> ELSE ParseLines(file.lines)

LineChoices ==
    { <<>>,
      <<Space, Space>>,
      <<"#", Space, SceneA, Space, SceneB>>,
      <<SceneA, Space, SceneB>>,
      <<"(", Quote, SceneB, Quote, Comma, Space, Quote, SceneA, Quote, ")">>,
      <<SceneD, Comma, SceneA>>,
      <<SceneD, Space, Space, SceneD>>,
      <<SceneA>>,
      <<SceneA, Space, SceneB, Space, SceneC>>,
      <<SceneA, Comma, SceneB, SceneC>>,
      <<Apostrophe, SceneD, Apostrophe, Comma, Space, Quote, Quote>>,
      <<Space, SceneB, Space, SceneA, Space>> }

InitLoad ==
    /\ API_KEY = TRUE
    /\ ROI = Undefined
    /\ WORKERS = 2
    /\ pairsFile = <<>>
    /\ fs = Disk({}, {})
    /\ mainPc = "load_pairs_from_file"
    /\ exitCode = NoExit
    /\ PAIRS = <<>>
    /\ target_dem = NoPath
    /\ dem_path = NoPath
    /\ acq = "none"
    /\ demCalls = 0
    /\ orbitCalls = <<>>
    /\ warnings = {}
    /\ unit = <<>>
    /\ poolValue = <<>>
    /\ outOfOrder = FALSE
    /\ results = <<>>
    /\ summary = <<>>
    /\ rr = NoCall
    /\ provRuns = <<>>
    /\ \E there \in BOOLEAN, lines \in SeqsUpTo(LineChoices, MaxLines) :
          /\ there \/ lines = <<>>
          /\ frame = [file |-> [there |-> there, lines |-> lines],
                      status |-> "called", ret |-> <<>>]

\* The call load_pairs_from_file(DEFAULT_PAIRS_FILE) returns; main keeps the
\* list (line 398)
LoadReturn ==
    /\ mainPc = "load_pairs_from_file"
    /\ frame.status = "called"
    /\ frame' = [frame EXCEPT !.status = "returned",
                              !.ret = load_pairs_from_file(frame.file)]
    /\ pairsFile' = load_pairs_from_file(frame.file)
    /\ UNCHANGED <<API_KEY, ROI, WORKERS, provVars, poolVars, fs, mainPc, exitCode, PAIRS,
                   dem_path, results, summary, rr, provRuns>>

NextLoad == LoadReturn

SpecLoad == InitLoad /\ [][NextLoad]_vars

-----------------------------------------------------------------------------
(* Properties *)

Fails(n) == [k \in 1..n |-> "CalledProcessError"]
Phase1Cmd(k) == Cmd(current_steps[k], current_steps[k])
Phase1Cmds == {Phase1Cmd(k) : k \in 1..Len(current_steps)}
Phase2Cmd == Cmd(PHASE_2_START, PHASE_2_END)
\* folder_name tabulated over the pairs a pair file can hold
PairFolder ==
    [p \in {PairList[k] : k \in 1..Len(PairList)} |-> folder_name(p[1], p[2])]

\* C1 (SpecRetry).  For retries = N >= 1: a command that fails N-1 times and then
\* succeeds makes run_with_retry return True after exactly N invocations; a
\* command that fails N times makes it raise after exactly N invocations; it
\* never invokes the command more than N times and never raises before the
\* N-th failure.
C1_RetryAttempts ==
    (rr.status # "none" /\ rr.retries >= 1) =>
        /\ rr.invoked = Len(rr.outcomes)
        /\ rr.invoked <= rr.retries
        /\ rr.outcomes = Fails(rr.retries - 1) \o <<"ok">> =>
              (rr.status = "returned" /\ rr.value = "True" /\ rr.invoked = rr.retries)
        /\ rr.outcomes = Fails(rr.retries) =>
              (rr.status = "raised" /\ rr.invoked = rr.retries)
        /\ rr.status = "raised" => rr.outcomes = Fails(rr.retries)
        /\ rr.status = "running" => rr.outcomes = Fails(rr.invoked)

C1_Witness ==
    /\ rr.retries = 3
    /\ rr.outcomes = <<"CalledProcessError", "CalledProcessError", "ok">>
    /\ rr.status = "returned"
    /\ rr.invoked = 3

\* C2 (Spec).  Every error inside a unit of work, staging included, becomes a
\* Failure result of that unit: no exception leaves worker_task, and pool.map
\* never raises in main.
C2_ErrorsCaughtAtUnitBoundary ==
    /\ \A i \in DOMAIN unit : unit[i].pc # "Raised"
    /\ mainPc # "exit_pool"

\* C3 (Spec).  Whatever the order in which the units finish, the list pool.map
\* returns has one result per pair of the list and its i-th result is the one
\* of the i-th pair.
C3_ResultsInInputOrder ==
    mainPc \in {"summary", "done"} =>
        /\ Len(results) = Len(PAIRS)
        /\ \A i \in 1..Len(PAIRS) :
              /\ results[i].status \in {"Success", "fail"}
              /\ results[i].folder = PairFolder[PAIRS[i]]
              /\ results[i] = ResultOf(unit[i])
        /\ mainPc = "done" => summary = results

C3_Witness ==
    /\ mainPc = "done"
    /\ outOfOrder
    /\ Len(results) = 2
    /\ results[1].status = "Success"
    /\ results[2].status = "fail"

\* C4 (Spec).  A unit only moves Pending -> Staging -> Phase1Running ->
\* Phase2Running -> Succeeded, or from Staging, Phase1Running or Phase2Running
\* to Failed; a Succeeded or Failed unit never changes again, and a unit has a
\* result exactly when it is Succeeded or Failed.
C4Moves ==
    {<<"Pending", "Staging">>, <<"Staging", "Phase1Running">>,
     <<"Phase1Running", "Phase2Running">>, <<"Phase2Running", "Succeeded">>,
     <<"Staging", "Failed">>, <<"Phase1Running", "Failed">>,
     <<"Phase2Running", "Failed">>}
C4Step ==
    \A i \in DOMAIN unit' :
        IF i \in DOMAIN unit
        THEN /\ unit'[i].pc = unit[i].pc \/ <<unit[i].pc, unit'[i].pc>> \in C4Moves
             /\ unit[i].pc \in {"Succeeded", "Failed"} =>
                    (unit'[i] = unit[i] /\ poolValue'[i] = poolValue[i])
             /\ unit'[i].pc \in {"Succeeded", "Failed"} <=> poolValue'[i] # NoResult
        ELSE unit'[i].pc = "Pending"
C4_UnitStateMachine == [][C4Step]_vars

\* C5 (Spec).  A unit whose Phase 1 step has failed on all its attempts is
\* Failed, its result is the Failure line naming that step's command, and the
\* commands invoked for it are exactly the steps up to that one: no later step
\* and no Phase 2 command, in any later state either.  A unit whose last
\* command returned is Succeeded with the Success line.
C5_Phase1FailureStopsUnit ==
    \A i \in DOMAIN unit :
        /\ (unit[i].call.status = "raised" /\ unit[i].call.cmd \in Phase1Cmds) =>
              /\ unit[i].pc = "Failed"
              /\ unit[i].call.cmd = Phase1Cmd(unit[i].step)
              /\ unit[i].call.outcomes = Fails(unit[i].call.retries)
              /\ poolValue[i] = Failure(PairFolder[PAIRS[i]],
                                        Phase1Cmd(unit[i].step))
              /\ unit[i].invokedCmds = {Phase1Cmd(k) : k \in 1..unit[i].step}
        /\ (unit[i].call.status = "returned" /\ unit[i].call.cmd = Phase2Cmd) =>
              /\ unit[i].pc = "Succeeded"
              /\ poolValue[i] = Success(PairFolder[PAIRS[i]])

C5_Witness ==
    /\ mainPc = "done"
    /\ \E i, j \in DOMAIN unit :
          /\ unit[i].pc = "Failed"
          /\ unit[i].call.cmd = Cmd("computeBaselines", "computeBaselines")
          /\ results[i].status = "fail"
          /\ unit[j].pc = "Succeeded"
          /\ results[j].status = "Success"

\* C6 (Spec).  A unit one of whose scene inputs is not in data/raw reports
\* Failure without any invocation of the external processor.
SceneMissing(i) ==
    \/ ~exists(fs, Path(RAW_DIR, PAIRS[i][1], ""))
    \/ ~exists(fs, Path(RAW_DIR, PAIRS[i][2], ""))
C6_MissingSceneFailsUnit ==
    \A i \in DOMAIN unit :
        SceneMissing(i) =>
            /\ unit[i].invokedCmds = {}
            /\ unit[i].pc \in {"Pending", "Staging", "Failed"}

\* C7 (Spec).  When terrain acquisition was attempted and a companion metadata
\* file is absent afterwards, the run aborts with non-zero status and no worker
\* ever starts.
C7_MissingMetadataAborts ==
    acq = "missing_meta" =>
        /\ mainPc \notin {"pool", "summary", "done", "exit_pool"}
        /\ unit = <<>>
        /\ mainPc = "exit_provision" \/ exitCode = NoExit

\* C8 (Spec).  With no terrain artifact and no bounding box configured,
\* provisioning does not abort the run.
C8_MissingRoiNeverAborts ==
    (~DemReady(fs) /\ ROI = Undefined) => mainPc # "exit_provision"

\* C9 (SpecProv).  With the artifact and both companions at the expected name
\* provisioning returns that path without an acquisition call, and a
\* provisioning run that follows a successful one makes no acquisition call.
C9_ProvisioningIdempotent ==
    /\ (mainPc = "pool_start" /\ DemReady(fs)) => (dem_path = TargetDem /\ demCalls = 0)
    /\ (provRuns # <<>> /\ ~provRuns[Len(provRuns)].raised
            /\ provRuns[Len(provRuns)].acq \in {"none", "ok"}) => demCalls = 0

\* C10 (Spec).  The process ends with non-zero status exactly when the
\* credential is absent or provisioning raised; otherwise the summary is
\* printed and it ends with status zero.
C10_ExitStatus ==
    mainPc \in {"done", "exit_credential", "exit_provision", "exit_pool"} =>
        /\ exitCode # 0 <=> mainPc \in {"exit_credential", "exit_provision"}
        /\ exitCode = 0 => (mainPc = "done" /\ Len(summary) = Len(PAIRS))

\* C11 (Spec).  With the expected terrain artifact complete on disk and the
\* credential unset, the run does not abort: provisioning returns and the pool
\* runs.
C11_NoCredentialWithTerrainProceeds ==
    (~API_KEY /\ DemReady(fs)) => (mainPc # "exit_credential" /\ exitCode = NoExit)

\* C12 (SpecLink).  Every call atomic_link(src, dst) made while src does not
\* exist returns False, raises nothing, and leaves the disk, dst included,
\* exactly as it was before the call.
DiskBefore(k) == IF k = 1 THEN frame.before ELSE frame.disks[k - 1]
C12_MissingSourceLeavesDst ==
    \A k \in 1..Len(frame.rets) :
        ~exists(DiskBefore(k), frame.src) =>
            /\ frame.rets[k] = "False"
            /\ frame.disks[k] = DiskBefore(k)

C12_Witness ==
    /\ Len(frame.rets) >= 1
    /\ ~exists(frame.before, frame.src)
    /\ lexists(frame.before, frame.dst)
    /\ frame.before[frame.dst] = Link(Gone)
    /\ fs[frame.dst] = Link(Gone)

Replaceable(f, dst) ==
    /\ isdir(f, Parent(dst))
    /\ ~(lexists(f, dst) /\ f[dst].kind = "dir")
C14_SandboxesDisjoint ==
    \A i, j \in InProgress : i # j => run_dir(unit[i].folder) # run_dir(unit[j].folder)

\* C15 (Spec).  While prepare_shared_resources has not returned there is no
\* unit of work at all; once a unit exists provisioning is over, with a terrain
\* path returned that either exists or was given up on with a warning, and the
\* acquisition collaborators were each called at most once.
C15_ProvisioningBeforePool ==
    /\ mainPc \in {"start", "prepare_dem", "download_dem", "prepare_orbit",
                   "pool_start", "exit_credential", "exit_provision"} => unit = <<>>
    /\ unit # <<>> =>
          /\ mainPc \in {"pool", "summary", "done", "exit_pool"}
          /\ dem_path # NoPath
          /\ exists(fs, dem_path) \/ "DEM download failed" \in warnings
    /\ demCalls <= 1
    /\ Len(orbitCalls) <= 1

C15_Witness ==
    /\ \E i \in DOMAIN unit : unit[i].pc = "Staging"
    /\ acq = "ok"
    /\ demCalls = 1
    /\ Len(orbitCalls) = 1
    /\ dem_path = DemLatPath(ROI)

\* C16 (Spec).  At most WORKERS units are in progress at any moment, and when
\* pool.map has returned every pair of the list has been worked on exactly
\* once.
C16_BoundedParallelism ==
    /\ Cardinality(InProgress) <= WORKERS
    /\ \A i \in DOMAIN unit : unit[i].starts = (IF unit[i].pc = "Pending" THEN 0 ELSE 1)
    /\ mainPc \in {"summary", "done", "exit_pool"} =>
          /\ DOMAIN unit = 1..Len(PAIRS)
          /\ \A i \in DOMAIN unit : unit[i].pc \in Terminal /\ unit[i].starts = 1

C16_Witness ==
    /\ WORKERS = 1
    /\ DOMAIN unit = {1, 2}
    /\ unit[1].pc = "Succeeded"
    /\ unit[2].pc = "Phase2Running"

\* The date field of a scene identifier, <<>> when it has none
DateOf(name) ==
    LET parts == split(Chars(name), "_") IN
    IF Len(parts) >= 6 THEN Prefix(parts[6], 8) ELSE <<>>
\* Every date extractable from any identifier of any pair
AllDates(pairs) ==
    {DateOf(pairs[k][n]) : k \in 1..Len(pairs), n \in 1..2} \ {<<>>}
LexMin(S) == CHOOSE d \in S : \A e \in S : LexLeq(d, e)
LexMax(S) == CHOOSE d \in S : \A e \in S : LexLeq(e, d)

\* C17 (Spec).  Once provisioning has returned, the ephemeris collaborator has
\* been called exactly with (minDate, maxDate, ORBIT_DIR) if some pair has an
\* extractable date, whether or not the terrain artifact was already there,
\* and has not been called if none has.
C17_EphemerisAlwaysProvisioned ==
    mainPc \in {"pool_start", "pool", "summary", "done", "exit_pool"} =>
        LET range == get_date_range_from_pairs(pairsFile) IN
        IF range[1] = None
        THEN orbitCalls = <<>>
        ELSE orbitCalls = <<<<range[1], range[2], ORBIT_DIR>>>>

\* C18 (SpecDates).  get_date_range_from_pairs returns the lexical minimum and
\* maximum of the dates of all identifiers that have one, a pair with a single
\* such identifier included, and (None, None) exactly when no identifier has
\* one.
C18_DateRangeOverAllIdentifiers ==
    frame.status = "returned" =>
        IF AllDates(frame.pairs) = {}
        THEN frame.ret = <<None, None>>
        ELSE frame.ret = <<Str(LexMin(AllDates(frame.pairs))),
                           Str(LexMax(AllDates(frame.pairs)))>>

\* C19 (SpecLoad).  A line is valid when, blank and comment lines apart, it
\* holds exactly two canonical identifiers or splits into exactly two tokens.
\* load_pairs_from_file returns one pair per valid line, in the order of the
\* lines, and nothing for any other line.
SkippedLine(raw) == strip(raw, {Space}) = <<>> \/ Head(strip(raw, {Space})) = "#"
ValidLine(raw) ==
    /\ ~SkippedLine(raw)
    /\ Len(GrammarA(strip(raw, {Space}))) = 2 \/ Len(GrammarB(strip(raw, {Space}))) = 2
PairOfLine(raw) ==
    IF Len(GrammarA(strip(raw, {Space}))) = 2
    THEN <<GrammarA(strip(raw, {Space}))[1], GrammarA(strip(raw, {Space}))[2]>>
    ELSE <<GrammarB(strip(raw, {Space}))[1], GrammarB(strip(raw, {Space}))[2]>>
C19_OnePairPerValidLine ==
    (frame.status = "returned" /\ frame.file.there) =>
        LET valid == SelectSeq(frame.file.lines, ValidLine) IN
        /\ Len(frame.ret) = Len(valid)
        /\ \A k \in 1..Len(valid) : frame.ret[k] = PairOfLine(valid[k])
        /\ pairsFile = frame.ret

C19_Witness ==
    /\ frame.status = "returned"
    /\ frame.file.lines = << <<SceneA, Space, SceneB, Space, SceneC>>,
                             <<SceneD, Comma, SceneA>> >>
    /\ frame.ret = << <<SceneD, SceneA>> >>

\* C20 (Spec).  When a unit is about to invoke its first step, its run
\* directory holds a link to every ephemeris file of data/orbit_data (*.EOF and
\* *.eof), to every terrain file present, and to both scenes, and holds the
\* generated configuration file.
Staged(f, d, p) == islink(f, InDir(d, p)) /\ exists(f, InDir(d, p))
C20_SandboxComplete ==
    \A i \in DOMAIN unit :
        (unit[i].pc = "Phase1Running" /\ unit[i].step = 1 /\ unit[i].call.invoked = 0) =>
            LET d == run_dir(unit[i].folder) IN
            /\ \A p \in glob(fs, ORBIT_DIR, ".EOF") \cup glob(fs, ORBIT_DIR, ".eof") :
                  Staged(fs, d, p)
            /\ \A p \in Sidecars(dem_path) : exists(fs, p) => Staged(fs, d, p)
            /\ Staged(fs, d, Path(RAW_DIR, PAIRS[i][1], ""))
            /\ Staged(fs, d, Path(RAW_DIR, PAIRS[i][2], ""))
            /\ exists(fs, ConfigFile(d))

\* C21 (Spec).  Within a unit a Phase 1 step is invoked, scoped to
\* [step, step] and with 2 attempts, only when the step before it has
\* succeeded; the Phase 2 command is invoked only when all 13 Phase 1 steps
\* have succeeded, with 1 attempt; one failure of it makes the unit Failed
\* after exactly one invocation and without any sleep.
C21_PhasedOrder ==
    /\ Len(PHASE_1) = 13
    /\ current_steps = PHASE_1
    /\ \A i \in DOMAIN unit :
          LET u == unit[i] IN
          /\ u.invokedCmds \subseteq Phase1Cmds \cup {Phase2Cmd}
          /\ u.okCmds \subseteq u.invokedCmds
          /\ \A k \in 2..Len(PHASE_1) :
                Phase1Cmd(k) \in u.invokedCmds => Phase1Cmd(k - 1) \in u.okCmds
          /\ Phase2Cmd \in u.invokedCmds => Phase1Cmds \subseteq u.okCmds
          /\ u.pc = "Phase1Running" =>
                (u.call.cmd = Phase1Cmd(u.step) /\ u.call.retries = 2)
          /\ u.pc = "Phase2Running" => u.call.cmd = Phase2Cmd
          /\ u.call.cmd = Phase2Cmd =>
                /\ u.call.retries = 1
                /\ u.call.invoked <= 1
                /\ u.call.sleeps = <<>>
                /\ u.call.outcomes = <<"CalledProcessError">> => u.pc = "Failed"
                /\ u.call.outcomes = <<"ok">> => u.pc = "Succeeded"

C21_Witness ==
    \E i \in DOMAIN unit :
        /\ unit[i].pc = "Failed"
        /\ unit[i].call.cmd = Phase2Cmd
        /\ unit[i].call.invoked = 1
        /\ unit[i].invokedCmds = Phase1Cmds \cup {Phase2Cmd}
        /\ unit[i].okCmds = Phase1Cmds

\* The failed attempts among the outcomes of a retry loop
Failed(outcomes) == {k \in DOMAIN outcomes : outcomes[k] # "ok"}

\* C22 (SpecDelays).  run_with_retry sleeps the same fixed delay after every
\* failed attempt except the last, and never after the final failed attempt or
\* after a success.  download_dem makes at most MAX_RETRIES download attempts,
\* sleeps k * RETRY_DELAY after the k-th failed attempt for k < MAX_RETRIES,
\* stops at the first success, and raises only when all MAX_RETRIES attempts
\* have failed.
C22_RetryDelays ==
    /\ MAX_RETRIES = 5
    /\ \A k \in DOMAIN rr.sleeps : rr.sleeps[k] = rr.delay
    /\ Len(rr.sleeps) = Cardinality(Failed(rr.outcomes) \ {rr.retries})
    /\ rr.status = "raised" =>
          (rr.invoked = rr.retries /\ Len(rr.sleeps) = rr.retries - 1)
    /\ (rr.status = "returned" /\ rr.invoked > 0) => Len(rr.sleeps) = rr.invoked - 1
    /\ frame.tried <= MAX_RETRIES
    /\ frame.tried = Len(frame.outcomes)
    /\ frame.waits = [k \in Failed(frame.outcomes) \ {MAX_RETRIES} |-> k * RETRY_DELAY]
    /\ \A k \in DOMAIN frame.outcomes :
          frame.outcomes[k] = "ok" => (k = frame.tried /\ frame.status = "downloaded")
    /\ frame.status = "downloaded" => Len(frame.waits) = frame.tried - 1
    /\ frame.status = "raised" <=> Failed(frame.outcomes) = 1..MAX_RETRIES

C22_Witness ==
    /\ rr.status = "raised"
    /\ rr.retries = 3
    /\ rr.sleeps = <<rr.delay, rr.delay>>
    /\ frame.status = "raised"
    /\ frame.waits = <<10, 20, 30, 40>>

\* C23 (SpecLink).  For an existing src and any prior occupant of dst,
\* atomic_link returns True with dst a symbolic link that resolves to src, or
\* returns False; it never raises to its caller and never returns True while
\* dst is stale or missing.
C23_LinkReturnsOrFails ==
    \A k \in DOMAIN frame.rets :
        exists(DiskBefore(k), frame.src) =>
            /\ frame.rets[k] \in {"True", "False"}
            /\ frame.rets[k] = "True" =>
                  /\ islink(frame.disks[k], frame.dst)
                  /\ frame.disks[k][frame.dst].target = frame.src
                  /\ exists(frame.disks[k], frame.dst)

\* The entries of the shared terrain, ephemeris and raw scene directories
SharedDirs == {DEM_DIR, ORBIT_DIR, RAW_DIR}
Shared(f) == [p \in {q \in DOMAIN f : q.dir \in SharedDirs} |-> f[p]]

\* C24 (Spec).  While the pool is alive no step (dispatching a task, staging
\* its links, writing its configuration file, clearing its cache, running its
\* commands, returning the results) creates, removes or modifies an entry of
\* the shared terrain directory, the shared ephemeris directory or the raw
\* scene directory.
C24_SharedReadOnly ==
    [][mainPc = "pool" => Shared(fs') = Shared(fs)]_vars

C24_Witness ==
    /\ mainPc = "pool"
    /\ \E i \in DOMAIN unit :
          /\ unit[i].pc = "Succeeded"
          /\ Staged(fs, run_dir(unit[i].folder), Path(RAW_DIR, PAIRS[i][1], ""))
          /\ \E p \in glob(fs, ORBIT_DIR, ".EOF") :
                Staged(fs, run_dir(unit[i].folder), p)
          /\ \E p \in Sidecars(dem_path) : Staged(fs, run_dir(unit[i].folder), p)

\* C25 (SpecLive).  When every invocation returns and the workers are
\* scheduled fairly, a command is invoked at most twice when it is a Phase 1
\* step and at most once when it is the Phase 2 call (27 invocations a unit at
\* most), and once the pool is started every unit ends Succeeded or
\* Failed, the pool returns, and the summary with one line per pair is printed.
C25_EveryUnitEndsAndSummaryPrinted ==
    /\ [](\A i \in DOMAIN unit :
             /\ Cardinality(unit[i].invokedCmds \cap Phase1Cmds) <= 13
             /\ unit[i].call.invoked <= (IF unit[i].call.cmd = Phase2Cmd THEN 1 ELSE 2))
    /\ (mainPc = "pool") ~>
          (/\ mainPc = "done"
           /\ \A i \in DOMAIN unit : unit[i].pc \in {"Succeeded", "Failed"}
           /\ Len(summary) = Len(PAIRS))

====
